---------------------------- MODULE Spec2Model ----------------------------
(***************************************************************************)
(* Model of star_burger's geocoding cache (geocache.GeocodedAddress) and   *)
(* of the order report Order.active_orders_with_restaurants.               *)
(*                                                                         *)
(* Representation                                                          *)
(*   str                  a tuple of one-character strings, <<"A", " ">>   *)
(*   None / a float       <<>> / <<x>>                                     *)
(*   None / (lat, lon)    <<>> / <<lat, lon>>                              *)
(*   dict                 a function; dict[k] = v is (k :> v) @@ dict      *)
(*   list                 a sequence                                       *)
(***************************************************************************)
EXTENDS Integers, Sequences, FiniteSets, TLC

VARIABLES
    app,    \* which of the two geocache apps of the repository is installed
    cache,  \* the rows of the GeocodedAddress table
    last,   \* what the last call did: its input, its geocoder calls, its result
    inflight \* the calls running side by side: where each is, what it has read

vars == <<app, cache, last, inflight>>

\* the largest set of addresses handed to one get_coordinates_batch call
MaxBatch == 2

\* the number of requests served side by side
MaxProcs == 2

None == <<>>

---------------------------------------------------------------------------
(* str *)

Whitespace == {" "}

RECURSIVE lstrip(_)
lstrip(s) ==
    IF s # <<>> /\ Head(s) \in Whitespace THEN lstrip(Tail(s)) ELSE s

RECURSIVE rstrip(_)
rstrip(s) ==
    IF s # <<>> /\ s[Len(s)] \in Whitespace
    THEN rstrip(SubSeq(s, 1, Len(s) - 1))
    ELSE s

strip(s) == rstrip(lstrip(s))

lowerChar(c) ==
    CASE c = "A" -> "a"
      [] c = "B" -> "b"
      [] OTHER -> c

lower(s) == [i \in 1..Len(s) |-> lowerChar(s[i])]

\* the addresses of the model: blank ones, and ones that differ only in
\* case and surrounding whitespace
Addresses == { <<>>, <<" ">>, <<"a">>, <<"A", " ">> }

---------------------------------------------------------------------------
(* The geocoding provider: what one GET to it can do *)

\* Point.pos of the first featureMember, "<lon> <lat>", split at the space
ProviderPos == { <<37, 55>>, <<30, 59>> }

Responses ==
    [kind : {"found"}, pos : ProviderPos]
        \cup [kind : {"empty", "http_error", "transport_error"}, pos : {<<>>}]

\* a mutant of fetch_coordinates: no place found gives a latitude and no
\* longitude
FetchCoordinatesOneSided(response) ==
    CASE response.kind = "transport_error" ->
            [exc |-> "RequestException", lat |-> None, lon |-> None]
      [] response.kind = "http_error" ->
            [exc |-> "FetchCoordinatesError", lat |-> None, lon |-> None]
      [] response.kind = "empty" ->
            [exc |-> "none", lat |-> <<0>>, lon |-> None]
      [] OTHER ->
            LET lon == response.pos[1]
                lat == response.pos[2]
            IN [exc |-> "none", lat |-> <<lat>>, lon |-> <<lon>>]

\* backend geocache.geocoder.fetch_coordinates: what the call returns or raises
fetch_coordinates(response) ==
    CASE response.kind = "transport_error" ->
            \* requests.get raises a RequestException that is no HTTPError
            [exc |-> "RequestException", lat |-> None, lon |-> None]
      [] response.kind = "http_error" ->
            [exc |-> "FetchCoordinatesError", lat |-> None, lon |-> None]
      [] response.kind = "empty" ->
            [exc |-> "none", lat |-> None, lon |-> None]
      [] OTHER ->
            LET lon == response.pos[1]
                lat == response.pos[2]
            IN [exc |-> "none", lat |-> <<lat>>, lon |-> <<lon>>]

\* geocache.models.fetch_coordinates: the same, but no place found is an error
fetch_coordinates_norm(response) ==
    CASE response.kind = "transport_error" ->
            [exc |-> "RequestException", lat |-> None, lon |-> None]
      [] response.kind = "http_error" ->
            [exc |-> "FetchCoordinatesError", lat |-> None, lon |-> None]
      [] response.kind = "empty" ->
            [exc |-> "FetchCoordinatesError", lat |-> None, lon |-> None]
      [] OTHER ->
            LET lon == response.pos[1]
                lat == response.pos[2]
            IN [exc |-> "none", lat |-> <<lat>>, lon |-> <<lon>>]

---------------------------------------------------------------------------
(* backend/geocache: GeocodedAddress(address unique, lat, lon) *)

GeocodedAddress(address, lat, lon) ==
    [address |-> address, lat |-> lat, lon |-> lon]

\* (lat, lon) of two floats
Pair(lat, lon) == <<lat[1], lon[1]>>

\* objects.bulk_create / objects.create: one INSERT, refused as a whole when
\* it would break the unique constraint on address
bulk_create(table, rows) ==
    LET keys == {rows[i].address : i \in 1..Len(rows)}
        clash == \/ \E r \in table : r.address \in keys
                 \/ \E i, j \in 1..Len(rows) : i # j /\ rows[i].address = rows[j].address
    IN IF clash
       THEN [exc |-> "IntegrityError", table |-> table]
       ELSE [exc |-> "none", table |-> table \cup {rows[i] : i \in 1..Len(rows)}]

\* a mutant of ExistingMap: the query finds no row
ExistingMapFindsNothing(table, addresses) ==
    [a \in {} |-> None]

\* get_coordinates_batch, lines 38-45: the rows found for addresses
ExistingMap(table, addresses) ==
    LET existing_addresses == {r \in table : r.address \in addresses}
    IN [a \in {r.address : r \in existing_addresses} |->
            LET geo_address == CHOOSE r \in existing_addresses : r.address = a
            IN IF geo_address.lat = None \/ geo_address.lon = None
               THEN None
               ELSE Pair(geo_address.lat, geo_address.lon)]

\* a mutant of BatchStep: the result is keyed by the trimmed, lower-cased
\* address instead of the address given
BatchStepNormalizedKey(st, address, response) ==
    LET f == fetch_coordinates(response)
        called == Append(st.calls, address)
        key == lower(strip(address))
    IN CASE f.exc = "RequestException" ->
                [st EXCEPT !.calls = called, !.exc = f.exc]
         [] f.exc = "FetchCoordinatesError" ->
                [st EXCEPT !.calls = called,
                           !.coordinates_map = (key :> None) @@ @]
         [] OTHER ->
                LET appended == Append(st.new_geo_addresses,
                                       GeocodedAddress(address, f.lat, f.lon))
                IN IF f.lat = None \/ f.lon = None
                   THEN [st EXCEPT !.calls = called,
                                   !.new_geo_addresses = appended,
                                   !.coordinates_map = (key :> None) @@ @]
                   ELSE [st EXCEPT !.calls = called,
                                   !.new_geo_addresses = appended,
                                   !.coordinates_map =
                                       (key :> Pair(f.lat, f.lon)) @@ @]

\* get_coordinates_batch, lines 50-57: one pass of the loop over missing_addresses
BatchStep(st, address, response) ==
    LET f == fetch_coordinates(response)
        called == Append(st.calls, address)
    IN CASE f.exc = "RequestException" ->
                [st EXCEPT !.calls = called, !.exc = f.exc]
         [] f.exc = "FetchCoordinatesError" ->
                [st EXCEPT !.calls = called,
                           !.coordinates_map = (address :> None) @@ @]
         [] OTHER ->
                LET appended == Append(st.new_geo_addresses,
                                       GeocodedAddress(address, f.lat, f.lon))
                IN IF f.lat = None \/ f.lon = None
                   THEN [st EXCEPT !.calls = called,
                                   !.new_geo_addresses = appended,
                                   !.coordinates_map = (address :> None) @@ @]
                   ELSE [st EXCEPT !.calls = called,
                                   !.new_geo_addresses = appended,
                                   !.coordinates_map =
                                       (address :> Pair(f.lat, f.lon)) @@ @]

\* the loop over missing_addresses, in the order the set yields them; an
\* exception that is not caught ends it
RECURSIVE BatchLoop(_, _, _)
BatchLoop(st, todo, responses) ==
    IF todo = <<>> \/ st.exc # "none"
    THEN st
    ELSE BatchLoop(BatchStep(st, Head(todo), responses[Head(todo)]),
                   Tail(todo), responses)

\* GeocodedAddress.get_coordinates_batch as a function of the table, the
\* addresses, the iteration order of missing_addresses and the provider
get_coordinates_batch(table, addresses, order, responses) ==
    IF addresses = {}
    THEN [exc |-> "none", coordinates_map |-> <<>>, calls |-> <<>>,
          missing |-> {}, created |-> <<>>, table |-> table]
    ELSE
      LET found == ExistingMap(table, addresses)
          missing_addresses == addresses \ DOMAIN found
          st == BatchLoop([coordinates_map |-> found, new_geo_addresses |-> <<>>,
                           calls |-> <<>>, exc |-> "none"],
                          order, responses)
          saved == IF st.new_geo_addresses # <<>>
                   THEN bulk_create(table, st.new_geo_addresses)
                   ELSE [exc |-> "none", table |-> table]
      IN IF st.exc # "none"
         THEN [exc |-> st.exc, coordinates_map |-> <<>>, calls |-> st.calls,
               missing |-> missing_addresses, created |-> <<>>, table |-> table]
         ELSE IF saved.exc # "none"
         THEN [exc |-> saved.exc, coordinates_map |-> <<>>, calls |-> st.calls,
               missing |-> missing_addresses, created |-> <<>>, table |-> table]
         ELSE [exc |-> "none", coordinates_map |-> st.coordinates_map,
               calls |-> st.calls, missing |-> missing_addresses,
               created |-> st.new_geo_addresses, table |-> saved.table]

\* GeocodedAddress.get_coordinates of backend/geocache, for one address
get_coordinates(table, address, response) ==
    LET absent(calls, created, t) ==
            [exc |-> "none", coordinates_map |-> (address :> None), calls |-> calls,
             missing |-> IF calls = <<>> THEN {} ELSE {address},
             created |-> created, table |-> t]
        geo_address == {r \in table : r.address = address}
    IN IF strip(address) = <<>>
       THEN absent(<<>>, <<>>, table)
       ELSE IF geo_address = {}
       THEN LET f == fetch_coordinates(response)
                row == GeocodedAddress(address, f.lat, f.lon)
                saved == bulk_create(table, <<row>>)
            IN CASE f.exc = "RequestException" ->
                        [exc |-> f.exc, coordinates_map |-> <<>>, calls |-> <<address>>,
                         missing |-> {address}, created |-> <<>>, table |-> table]
                 [] f.exc = "FetchCoordinatesError" ->
                        absent(<<address>>, <<>>, table)
                 [] saved.exc # "none" ->
                        [exc |-> saved.exc, coordinates_map |-> <<>>,
                         calls |-> <<address>>, missing |-> {address},
                         created |-> <<>>, table |-> table]
                 [] f.lat = None \/ f.lon = None ->
                        absent(<<address>>, <<row>>, saved.table)
                 [] OTHER ->
                        [exc |-> "none",
                         coordinates_map |-> (address :> Pair(f.lat, f.lon)),
                         calls |-> <<address>>, missing |-> {address},
                         created |-> <<row>>, table |-> saved.table]
       ELSE LET geo == CHOOSE r \in geo_address : TRUE
            IN IF geo.lat = None \/ geo.lon = None
               THEN absent(<<>>, <<>>, table)
               ELSE [exc |-> "none",
                     coordinates_map |-> (address :> Pair(geo.lat, geo.lon)),
                     calls |-> <<>>, missing |-> {}, created |-> <<>>,
                     table |-> table]

---------------------------------------------------------------------------
(* geocache: GeocodedAddress(address, norm_address unique, lat, lon) *)

\* GeocodedAddress.normalize
normalize(address) == lower(strip(address))

GeocodedAddressNorm(address, norm_address, lat, lon) ==
    [address |-> address, norm_address |-> norm_address, lat |-> lat, lon |-> lon]

\* objects.create: refused when it would break the unique constraint on
\* norm_address
create_norm(table, row) ==
    IF \E r \in table : r.norm_address = row.norm_address
    THEN [exc |-> "IntegrityError", table |-> table]
    ELSE [exc |-> "none", table |-> table \cup {row}]

\* GeocodedAddress.get_coordinates of geocache, for one address
get_coordinates_norm(table, address, response) ==
    LET norm_address == normalize(address)
        geo_address == {r \in table : r.norm_address = norm_address}
        hit == {r \in geo_address : r.lat # None /\ r.lon # None}
    IN IF norm_address = <<>>
       THEN [exc |-> "none", coordinates_map |-> (address :> None), calls |-> <<>>,
             missing |-> {}, created |-> <<>>, table |-> table]
       ELSE IF hit # {}
       THEN LET geo == CHOOSE r \in hit : TRUE
            IN [exc |-> "none",
                coordinates_map |-> (address :> Pair(geo.lat, geo.lon)),
                calls |-> <<>>, missing |-> {}, created |-> <<>>, table |-> table]
       ELSE LET f == fetch_coordinates_norm(response)
                row == GeocodedAddressNorm(address, norm_address, f.lat, f.lon)
                saved == create_norm(table, row)
            IN CASE f.exc = "RequestException" ->
                        [exc |-> f.exc, coordinates_map |-> <<>>, calls |-> <<address>>,
                         missing |-> {address}, created |-> <<>>, table |-> table]
                 [] f.exc = "FetchCoordinatesError" ->
                        [exc |-> "none", coordinates_map |-> (address :> None),
                         calls |-> <<address>>, missing |-> {address},
                         created |-> <<>>, table |-> table]
                 [] saved.exc # "none" ->
                        [exc |-> saved.exc, coordinates_map |-> <<>>,
                         calls |-> <<address>>, missing |-> {address},
                         created |-> <<>>, table |-> table]
                 [] OTHER ->
                        [exc |-> "none",
                         coordinates_map |-> (address :> Pair(f.lat, f.lon)),
                         calls |-> <<address>>, missing |-> {address},
                         created |-> <<row>>, table |-> saved.table]

---------------------------------------------------------------------------
(* foodcartapp.models.Order: the report of the active orders.               *)
(* Of a row, the columns the matching, the distances and the two sorts     *)
(* read are modelled; the customer's columns and total_cost are not.       *)

\* dict.get(key), dict.get(key, default)
Get(dict, key, default) == IF key \in DOMAIN dict THEN dict[key] ELSE default

\* a key of sorted()/list.sort(): a tuple of integers, compared as Python
\* compares tuples
RECURSIVE KeyLess(_, _)
KeyLess(k1, k2) ==
    IF k1 = <<>> \/ k2 = <<>> THEN k1 = <<>> /\ k2 # <<>>
    ELSE IF Head(k1) # Head(k2) THEN Head(k1) < Head(k2)
    ELSE KeyLess(Tail(k1), Tail(k2))

\* one element put into a sorted list of <<key, value>>, behind its equals
RECURSIVE Insert(_, _)
Insert(sorted, kv) ==
    IF sorted = <<>> THEN <<kv>>
    ELSE IF KeyLess(kv[1], Head(sorted)[1]) THEN <<kv>> \o sorted
    ELSE <<Head(sorted)>> \o Insert(Tail(sorted), kv)

\* sorted(list, key=...) and list.sort(key=...): a stable sort
RECURSIVE SortKeyed(_)
SortKeyed(keyed) ==
    IF keyed = <<>> THEN <<>>
    ELSE Insert(SortKeyed(SubSeq(keyed, 1, Len(keyed) - 1)), keyed[Len(keyed)])

Values(keyed) == [i \in DOMAIN keyed |-> keyed[i][2]]

\* geopy's distance(a, b).km rounded to two places: a metric on the
\* coordinates, zero between equal ones (here the sum of the differences)
Abs(x) == IF x < 0 THEN -x ELSE x
distance_km(a, b) == Abs(a[1] - b[1]) + Abs(a[2] - b[2])

\* _build_addresses_map, lines 314-316: the addresses handed to the cache
ReportAddresses(order_rows, menu_rows) ==
    {order_rows[i].order__address : i \in DOMAIN order_rows}
        \cup {menu_rows[i].restaurant__address : i \in DOMAIN menu_rows}

NoIndexes ==
    [rest_products |-> <<>>, rest_ids |-> <<>>, rest_names |-> <<>>,
     rest_addresses |-> <<>>, rest_coordinates |-> <<>>]

\* _build_restorant_indexes; rest_ids is the order of rest_products' keys
RECURSIVE _build_restorant_indexes(_, _)
_build_restorant_indexes(menu_rows, address_map) ==
    IF menu_rows = <<>> THEN NoIndexes
    ELSE
      LET ix == _build_restorant_indexes(SubSeq(menu_rows, 1, Len(menu_rows) - 1),
                                         address_map)
          row == menu_rows[Len(menu_rows)]
          rest_id == row.restaurant_id
          address == row.restaurant__address
      IN [rest_products |->
              (rest_id :> (Get(ix.rest_products, rest_id, {}) \cup {row.product_id}))
                  @@ ix.rest_products,
          rest_ids |->
              IF rest_id \in DOMAIN ix.rest_products
              THEN ix.rest_ids ELSE Append(ix.rest_ids, rest_id),
          rest_names |-> (rest_id :> row.restaurant__name) @@ ix.rest_names,
          rest_addresses |-> (rest_id :> address) @@ ix.rest_addresses,
          rest_coordinates |->
              (rest_id :> Get(address_map, address, None)) @@ ix.rest_coordinates]

\* _group_orders; order_ids is the order of orders_map's keys. A KeyError
\* of address_map[...] ends it
RECURSIVE _group_orders(_, _)
_group_orders(order_rows, address_map) ==
    IF order_rows = <<>>
    THEN [exc |-> "none", orders_map |-> <<>>, order_ids |-> <<>>]
    ELSE
      LET g == _group_orders(SubSeq(order_rows, 1, Len(order_rows) - 1), address_map)
          row == order_rows[Len(order_rows)]
          order_id == row.order_id
          known == order_id \in DOMAIN g.orders_map
          order ==
              IF known THEN g.orders_map[order_id]
              ELSE [order_id |-> order_id,
                    address |-> row.order__address,
                    created_at |-> row.order__created_at,
                    restaurant_id |-> row.order__restaurant_id,
                    restaurants |-> <<>>,
                    products |-> {},
                    order_coordinates |-> address_map[row.order__address]]
      IN IF g.exc # "none" THEN g
         ELSE IF ~known /\ row.order__address \notin DOMAIN address_map
         THEN [g EXCEPT !.exc = "KeyError"]
         ELSE [exc |-> "none",
               orders_map |->
                   (order_id :> [order EXCEPT !.products = @ \cup {row.product_id}])
                       @@ g.orders_map,
               order_ids |->
                   IF known THEN g.order_ids ELSE Append(g.order_ids, order_id)]

\* _build_rest_entry
_build_rest_entry(restaurant_id, ix, order_coordinates) ==
    LET rest_latlon == Get(ix.rest_coordinates, restaurant_id, None)
    IN [id |-> restaurant_id,
        name |-> Get(ix.rest_names, restaurant_id, "-"),
        address |-> Get(ix.rest_addresses, restaurant_id, <<>>),
        coordinates |-> rest_latlon,
        distance_km |->
            IF order_coordinates # None /\ rest_latlon # None
            THEN <<distance_km(order_coordinates, rest_latlon)>>
            ELSE None]

\* a mutant of Chosen: the order's restaurant is ignored
ChosenIgnored(chosen_id) == FALSE

\* if chosen_id: an id that is neither None nor 0
Chosen(chosen_id) == chosen_id # None /\ chosen_id # <<0>>

\* a mutant of Fits: one product in common is enough
FitsPartly(required, products) == required \cap products # {}

\* line 358: required.issubset(products)
Fits(required, products) == required \subseteq products

\* line 364: the key (distance_km is None, distance_km or float('inf')), as
\* <<is None, is inf, the number>>; `or` takes inf for None and for 0.0 alike
FitKey(r) ==
    LET d == r.distance_km
    IN IF d = None THEN <<1, 1, 0>>
       ELSE IF d[1] = 0 THEN <<0, 1, 0>>
       ELSE <<0, 0, d[1]>>

\* list(a set of product ids)
RECURSIVE ListOf(_)
ListOf(S) ==
    IF S = {} THEN <<>>
    ELSE LET m == CHOOSE x \in S : \A y \in S : x <= y
         IN <<m>> \o ListOf(S \ {m})

\* lines 356-363: the entries of the restaurants that fit, in rest_products' order
FitEntries(order, ix) ==
    LET fit == SelectSeq(ix.rest_ids,
                         LAMBDA rid : Fits(order.products, ix.rest_products[rid]))
    IN [i \in DOMAIN fit |-> _build_rest_entry(fit[i], ix, order.order_coordinates)]

\* _attach_restaurants, lines 345-368: what the loop does to one order
AttachOne(order, ix) ==
    LET chosen_id == order.restaurant_id
        fits == FitEntries(order, ix)
        restaurants ==
            IF Chosen(chosen_id)
            THEN <<_build_rest_entry(chosen_id[1], ix, order.order_coordinates)>>
            ELSE Values(SortKeyed([i \in DOMAIN fits |-> <<FitKey(fits[i]), fits[i]>>]))
    IN [order_id |-> order.order_id,
        address |-> order.address,
        created_at |-> order.created_at,
        restaurant_id |-> chosen_id,
        restaurants |-> restaurants,
        products |-> ListOf(order.products),
        order_coordinates |-> order.order_coordinates,
        has_restaurant |-> Chosen(chosen_id)]

\* _attach_restaurants: orders_map.values() afterwards
_attach_restaurants(g, ix) ==
    [i \in DOMAIN g.order_ids |-> AttachOne(g.orders_map[g.order_ids[i]], ix)]

\* a mutant of ReportKey: the earlier created_at first
ReportKeyOldestFirst(x) == << IF x.has_restaurant THEN 1 ELSE 0, x.created_at >>

\* lines 262-265: the key (has_restaurant, -created_at.timestamp())
ReportKey(x) == << IF x.has_restaurant THEN 1 ELSE 0, -x.created_at >>

\* active_orders_with_restaurants, lines 254-265, given the addresses' map
BuildReport(order_rows, menu_rows, addresses_map) ==
    LET ix == _build_restorant_indexes(menu_rows, addresses_map)
        g == _group_orders(order_rows, addresses_map)
        attached == _attach_restaurants(g, ix)
    IN IF g.exc # "none"
       THEN [exc |-> g.exc, indexes |-> ix, report |-> <<>>]
       ELSE [exc |-> "none", indexes |-> ix,
             report |-> Values(SortKeyed(
                 [i \in DOMAIN attached |-> <<ReportKey(attached[i]), attached[i]>>]))]

\* the orders in which a for loop can go through a set
Orderings(S) ==
    {o \in [1..Cardinality(S) -> S] : \A i, j \in DOMAIN o : i # j => o[i] # o[j]}

Batches == {S \in SUBSET Addresses : Cardinality(S) <= MaxBatch}

NoReport == <<>>
NoRows == [order_rows |-> <<>>, menu_rows |-> <<>>]

\* what a call of the cache did, as `last` keeps it
Outcome(op, input, r) ==
    [op |-> op, input |-> input, rows |-> NoRows,
     calls |-> r.calls, missing |-> r.missing,
     status |-> IF r.exc = "none" THEN "returned" ELSE r.exc,
     result |-> r.coordinates_map, created |-> r.created,
     indexes |-> NoIndexes, report |-> NoReport]

\* a call that is about to be made, with its arguments
Call(op, rows, addresses_map) ==
    [op |-> op, input |-> DOMAIN addresses_map, rows |-> rows,
     calls |-> <<>>, missing |-> {},
     status |-> "called", result |-> addresses_map, created |-> <<>>,
     indexes |-> NoIndexes, report |-> NoReport]

\* the requests served side by side, and a request that has not started
Procs == 1..MaxProcs

NoLoop ==
    [coordinates_map |-> <<>>, new_geo_addresses |-> <<>>, calls |-> <<>>,
     exc |-> "none"]

Idle == [pc |-> "idle", input |-> {}, st |-> NoLoop, exc |-> "none", result |-> <<>>]

NoCalls == [p \in Procs |-> Idle]

GetCoordinatesBatch ==
    /\ app = "backend"
    /\ \E addresses \in Batches :
         LET missing == addresses \ DOMAIN ExistingMap(cache, addresses)
         IN \E order \in Orderings(missing), responses \in [missing -> Responses] :
              LET r == get_coordinates_batch(cache, addresses, order, responses)
              IN /\ cache' = r.table
                 /\ last' = Outcome("get_coordinates_batch", addresses, r)
    /\ UNCHANGED <<app, inflight>>

GetCoordinates ==
    /\ app = "backend"
    /\ \E address \in Addresses, response \in Responses :
         LET r == get_coordinates(cache, address, response)
         IN /\ cache' = r.table
            /\ last' = Outcome("get_coordinates", {address}, r)
    /\ UNCHANGED <<app, inflight>>

GetCoordinatesNorm ==
    /\ app = "root"
    /\ \E address \in Addresses, response \in Responses :
         LET r == get_coordinates_norm(cache, address, response)
         IN /\ cache' = r.table
            /\ last' = Outcome("get_coordinates", {address}, r)
    /\ UNCHANGED <<app, inflight>>

Init ==
    /\ app \in {"backend", "root"}
    /\ cache = {}
    /\ last = Call("none", NoRows, <<>>)
    /\ inflight = NoCalls

Next ==
    \/ GetCoordinatesBatch
    \/ GetCoordinates
    \/ GetCoordinatesNorm

Spec == Init /\ [][Next]_vars

---------------------------------------------------------------------------
(* The rows the two queries of the report return *)

Restaurants == {1, 2, 3}
Products == {1, 2}

restaurant__name(r) ==
    CASE r = 1 -> "R1"
      [] r = 2 -> "R2"
      [] OTHER -> "R3"

\* the second restaurant's address is left blank
restaurant__address(r) ==
    CASE r = 1 -> <<"a">>
      [] r = 2 -> <<>>
      [] OTHER -> <<"A", " ">>

\* a sequence of sequences, joined
RECURSIVE Concat(_)
Concat(ss) == IF ss = <<>> THEN <<>> ELSE Head(ss) \o Concat(Tail(ss))

\* available_menu_rows(): one row for each product a restaurant has on sale,
\* the restaurants in the order rest_ids
MenuRows(avail, rest_ids) ==
    Concat([i \in DOMAIN rest_ids |->
        LET r == rest_ids[i]
            ps == ListOf(avail[r])
        IN [j \in DOMAIN ps |->
               [restaurant_id |-> r, product_id |-> ps[j],
                restaurant__name |-> restaurant__name(r),
                restaurant__address |-> restaurant__address(r)]]])

\* active_flat_rows(): one row for each item of an order, by order_id
OrderRows(orders) ==
    Concat([i \in DOMAIN orders |->
        LET ps == ListOf(orders[i].products)
        IN [j \in DOMAIN ps |->
               [order_id |-> i,
                order__address |-> orders[i].address,
                order__created_at |-> orders[i].created_at,
                order__restaurant_id |-> orders[i].restaurant_id,
                product_id |-> ps[j]]]])

Ascending == <<1, 2, 3>>
Descending == <<3, 2, 1>>

\* (lat, lon) as the cache hands them out
Coordinates == { <<55, 37>>, <<59, 30>>, <<56, 38>> }

---------------------------------------------------------------------------
(* The matching of one order: lines 254-265 for every menu, every order   *)
(* and every map of the addresses                                          *)

MatchInputs ==
    { [order_rows |-> OrderRows(<<o>>), menu_rows |-> MenuRows(avail, ids)] :
        o \in [address : {<<" ">>}, created_at : {1},
               restaurant_id : {None} \cup {<<r>> : r \in Restaurants},
               products : (SUBSET Products) \ {{}}],
        avail \in [Restaurants -> SUBSET Products],
        ids \in {Ascending, Descending} }

InitMatch ==
    /\ app = "backend"
    /\ cache = {}
    /\ \E rows \in MatchInputs :
         \E addresses_map \in
               [ReportAddresses(rows.order_rows, rows.menu_rows) ->
                    {None} \cup Coordinates] :
            last = Call("build_report", rows, addresses_map)
    /\ inflight = NoCalls

\* lines 254-265 applied to the rows and the map of the call
MatchOrders ==
    /\ last.op = "build_report"
    /\ last.status = "called"
    /\ LET b == BuildReport(last.rows.order_rows, last.rows.menu_rows, last.result)
       IN last' = [last EXCEPT
                       !.status = IF b.exc = "none" THEN "returned" ELSE b.exc,
                       !.indexes = b.indexes,
                       !.report = b.report]
    /\ UNCHANGED <<app, cache, inflight>>

NextMatch == MatchOrders

SpecMatch == InitMatch /\ [][NextMatch]_vars

---------------------------------------------------------------------------
(* The whole report, for every state of the cache *)

\* the largest number of active orders of one report
MaxOrders == 2

\* a row of the table for each address: none, one that records a failed
\* lookup, or one with coordinates
RowStates ==
    {<<>>, <<None, None>>} \cup {<< <<pos[2]>>, <<pos[1]>> >> : pos \in ProviderPos}

\* the tables get_coordinates_batch and get_coordinates can have built
Tables ==
    { {GeocodedAddress(a, f[a][1], f[a][2]) : a \in {x \in Addresses : f[x] # <<>>}} :
        f \in [Addresses -> RowStates] }

\* the orders' addresses differ only in case and whitespace from one
\* another and from the first restaurant's
OrderAddress(i) == IF i % 2 = 1 THEN <<"a">> ELSE <<"A", " ">>

ReportOrders ==
    UNION { { [i \in 1..n |-> [address |-> OrderAddress(i),
                               created_at |-> o[i].created_at,
                               restaurant_id |-> o[i].restaurant_id,
                               products |-> {1}]] :
                o \in [1..n -> [created_at : {1, 2}, restaurant_id : {None, <<1>>}]] } :
            n \in 0..MaxOrders }

ReportMenus ==
    { [r \in Restaurants |-> {}],
      [r \in Restaurants |-> IF r = 1 THEN {1} ELSE {}],
      [r \in Restaurants |-> IF r = 3 THEN {} ELSE {1}] }

\* the addresses the orders and restaurants of ReportOrders and ReportMenus have
ReportTables ==
    {t \in Tables : \A r \in t : r.address # <<" ">>}

InitReport ==
    /\ app = "backend"
    /\ cache \in ReportTables
    /\ \E orders \in ReportOrders, avail \in ReportMenus :
         last = Call("active_orders_with_restaurants",
                     [order_rows |-> OrderRows(orders),
                      menu_rows |-> MenuRows(avail, Ascending)],
                     <<>>)
    /\ inflight = NoCalls

\* Order.active_orders_with_restaurants
ActiveOrdersWithRestaurants ==
    /\ last.op = "active_orders_with_restaurants"
    /\ last.status = "called"
    /\ LET order_rows == last.rows.order_rows
           menu_rows == last.rows.menu_rows
           addresses == ReportAddresses(order_rows, menu_rows)
           missing == addresses \ DOMAIN ExistingMap(cache, addresses)
       IN \E order \in Orderings(missing), responses \in [missing -> Responses] :
            LET r == get_coordinates_batch(cache, addresses, order, responses)
                b == BuildReport(order_rows, menu_rows, r.coordinates_map)
                done == Outcome(last.op, addresses, r)
            IN /\ cache' = r.table
               /\ last' =
                    IF r.exc # "none"
                    THEN [done EXCEPT !.rows = last.rows]
                    ELSE [done EXCEPT
                              !.rows = last.rows,
                              !.status = IF b.exc = "none" THEN "returned" ELSE b.exc,
                              !.indexes = b.indexes,
                              !.report = b.report]
    /\ UNCHANGED <<app, inflight>>

NextReport == ActiveOrdersWithRestaurants

SpecReport == InitReport /\ [][NextReport]_vars

---------------------------------------------------------------------------
(* Requests served side by side.  Django runs each request in its own      *)
(* thread or process with its own database connection in autocommit mode,  *)
(* so of one call the SELECT, the geocoder calls and the INSERT are three  *)
(* steps between which other requests run.                                 *)

\* the addresses the racing requests resolve: two raw strings, one
\* normalized address
RaceAddresses == { <<"a">>, <<"A", " ">> }

RaceBatches == SUBSET RaceAddresses

\* get_coordinates_batch, lines 35-47: the guard and the SELECT
BatchQuery(p) ==
    /\ app = "backend"
    /\ inflight[p].pc = "idle"
    /\ \E addresses \in RaceBatches :
         inflight' = [inflight EXCEPT ![p] =
            IF addresses = {}
            THEN [Idle EXCEPT !.pc = "done"]
            ELSE [Idle EXCEPT
                      !.pc = "queried",
                      !.input = addresses,
                      !.st = [NoLoop EXCEPT
                                 !.coordinates_map = ExistingMap(cache, addresses)]]]
    /\ UNCHANGED <<app, cache, last>>

\* get_coordinates_batch, lines 47-57: the geocoder calls for the addresses
\* the SELECT did not return
BatchFetch(p) ==
    /\ app = "backend"
    /\ inflight[p].pc = "queried"
    /\ LET missing_addresses ==
               inflight[p].input \ DOMAIN inflight[p].st.coordinates_map
       IN \E order \in Orderings(missing_addresses),
             responses \in [missing_addresses -> Responses] :
            LET st == BatchLoop(inflight[p].st, order, responses)
            IN inflight' = [inflight EXCEPT ![p] =
                  IF st.exc # "none"
                  THEN [@ EXCEPT !.pc = "done", !.st = st, !.exc = st.exc]
                  ELSE [@ EXCEPT !.pc = "fetched", !.st = st]]
    /\ UNCHANGED <<app, cache, last>>

\* get_coordinates_batch, lines 58-60: the INSERT and the return
BatchSave(p) ==
    /\ app = "backend"
    /\ inflight[p].pc = "fetched"
    /\ LET st == inflight[p].st
           saved == IF st.new_geo_addresses # <<>>
                    THEN bulk_create(cache, st.new_geo_addresses)
                    ELSE [exc |-> "none", table |-> cache]
       IN /\ cache' = saved.table
          /\ inflight' = [inflight EXCEPT ![p] =
                IF saved.exc # "none"
                THEN [@ EXCEPT !.pc = "done", !.exc = saved.exc]
                ELSE [@ EXCEPT !.pc = "done", !.result = st.coordinates_map]]
    /\ UNCHANGED <<app, last>>

\* geocache get_coordinates, lines 54-63: normalize, the SELECT, the hit
NormQuery(p) ==
    /\ app = "root"
    /\ inflight[p].pc = "idle"
    /\ \E address \in RaceAddresses :
         LET norm_address == normalize(address)
             geo_address == {r \in cache : r.norm_address = norm_address}
             hit == {r \in geo_address : r.lat # None /\ r.lon # None}
         IN inflight' = [inflight EXCEPT ![p] =
               IF norm_address = <<>>
               THEN [Idle EXCEPT !.pc = "done", !.input = {address},
                                 !.result = (address :> None)]
               ELSE IF hit # {}
               THEN LET geo == CHOOSE r \in hit : TRUE
                    IN [Idle EXCEPT !.pc = "done", !.input = {address},
                                    !.result = (address :> Pair(geo.lat, geo.lon))]
               ELSE [Idle EXCEPT !.pc = "queried", !.input = {address}]]
    /\ UNCHANGED <<app, cache, last>>

\* geocache get_coordinates, line 65: the geocoder call
NormFetch(p) ==
    /\ app = "root"
    /\ inflight[p].pc = "queried"
    /\ \E response \in Responses :
         LET address == CHOOSE a \in inflight[p].input : TRUE
             f == fetch_coordinates_norm(response)
             row == GeocodedAddressNorm(address, normalize(address), f.lat, f.lon)
             called == [inflight[p].st EXCEPT !.calls = <<address>>]
         IN inflight' = [inflight EXCEPT ![p] =
               CASE f.exc = "RequestException" ->
                       [@ EXCEPT !.pc = "done", !.st = called, !.exc = f.exc]
                 [] f.exc = "FetchCoordinatesError" ->
                       [@ EXCEPT !.pc = "done", !.st = called,
                                 !.result = (address :> None)]
                 [] OTHER ->
                       [@ EXCEPT !.pc = "fetched",
                                 !.st = [called EXCEPT
                                            !.new_geo_addresses = <<row>>,
                                            !.coordinates_map =
                                                (address :> Pair(f.lat, f.lon))]]]
    /\ UNCHANGED <<app, cache, last>>

\* geocache get_coordinates, lines 66-74: the INSERT and the return
NormSave(p) ==
    /\ app = "root"
    /\ inflight[p].pc = "fetched"
    /\ LET st == inflight[p].st
           saved == create_norm(cache, st.new_geo_addresses[1])
       IN /\ cache' = saved.table
          /\ inflight' = [inflight EXCEPT ![p] =
                IF saved.exc # "none"
                THEN [@ EXCEPT !.pc = "done", !.exc = saved.exc]
                ELSE [@ EXCEPT !.pc = "done", !.result = st.coordinates_map]]
    /\ UNCHANGED <<app, last>>

InitRace == Init

NextRace ==
    \E p \in Procs :
        \/ BatchQuery(p)
        \/ BatchFetch(p)
        \/ BatchSave(p)
        \/ NormQuery(p)
        \/ NormFetch(p)
        \/ NormSave(p)

SpecRace == InitRace /\ [][NextRace]_vars

---------------------------------------------------------------------------
(* Properties *)

Range(seq) == {seq[i] : i \in DOMAIN seq}

Complete(r) == r.lat # None /\ r.lon # None

\* the cache key of an address and of a row, in the installed app
KeyOf(a) == IF app = "backend" THEN a ELSE normalize(a)
KeyOfRow(r) == IF app = "backend" THEN r.address ELSE r.norm_address

IsBatch == last.op = "get_coordinates_batch"
IsReport == last.op \in {"active_orders_with_restaurants", "build_report"}
Returned == last.status = "returned"

Blank(a) == strip(a) = <<>>

C2_OneFetchPerNormalizedAddress ==
    IsBatch =>
        Cardinality({i \in DOMAIN last.calls : ~Blank(last.calls[i])})
            <= Cardinality({normalize(a) : a \in {m \in last.missing : ~Blank(m)}})

\* C3: every address, not blank, a batch calls the geocoder for is saved by that batch
\* exactly once: with both coordinates when they were found, with neither
\* when the lookup failed.
C3_EveryAttemptSavedOnce ==
    IsBatch =>
        \A a \in {c \in Range(last.calls) : ~Blank(c)} :
            /\ Cardinality({i \in DOMAIN last.created : last.created[i].address = a}) = 1
            /\ \E r \in cache :
                 /\ r.address = a
                 /\ (r.lat = None) = (r.lon = None)
                 /\ Returned => (Complete(r) = (last.result[a] # None))

\* C4: a blank address is never sent to the geocoder and resolves to None,
\* alone or in a batch; the empty set resolves to the empty dict.
C4_BlankAddressNoCall ==
    last.op \in {"get_coordinates_batch", "get_coordinates"} =>
        /\ \A a \in last.input : Blank(a) =>
              /\ a \notin Range(last.calls)
              /\ Returned => last.result[a] = None
        /\ last.input = {} => Returned /\ last.result = <<>> /\ last.calls = <<>>

\* C5: whatever the geocoder does for addresses that are not blank, the
\* batch returns, with None for every address it saved no coordinates for.
C5_NoFailureAborts ==
    IsBatch /\ (\A a \in last.input : ~Blank(a)) =>
        /\ Returned
        /\ \A a \in last.input :
              (\E r \in cache : r.address = a /\ Complete(r)) \/ last.result[a] = None

\* C6: the dict a batch returns has exactly the addresses it was given as
\* its keys; the report finds every order's address in it and never ends
\* in a KeyError.
C6_ResultKeyedByInput ==
    (IsBatch \/ IsReport) /\ last.status # "called" =>
        /\ last.status # "KeyError"
        /\ Returned =>
             /\ DOMAIN last.result = last.input
             /\ \A i \in DOMAIN last.rows.order_rows :
                    last.rows.order_rows[i].order__address \in DOMAIN last.result
             /\ \A i \in DOMAIN last.report :
                    last.report[i].order_coordinates
                        = last.result[last.report[i].address]

\* C6 witness: a report whose orders' addresses differ only in case and
\* whitespace from one another and from a restaurant's, one of them found in
\* the table and one looked up.
C6_Witness ==
    /\ last.op = "active_orders_with_restaurants" /\ Returned
    /\ Len(last.report) = 2
    /\ last.report[1].address # last.report[2].address
    /\ \E i, j \in 1..2 :
         /\ last.report[i].address \in Range(last.calls)
         /\ last.report[j].address \notin Range(last.calls)
         /\ last.report[i].order_coordinates # None
         /\ last.report[j].order_coordinates # None
         /\ last.report[i].order_coordinates # last.report[j].order_coordinates

\* the products an order's rows ask for, the products a restaurant's rows offer
RequiredOf(order_id) ==
    {row.product_id : row \in {x \in Range(last.rows.order_rows) : x.order_id = order_id}}
AvailableAt(r) ==
    {row.product_id : row \in {x \in Range(last.rows.menu_rows) : x.restaurant_id = r}}

Ids(restaurants) == [i \in DOMAIN restaurants |-> restaurants[i].id]

\* C7: for an order without a restaurant, the restaurants listed are exactly
\* those that offer every product the order asks for, each listed once.
C7_CandidatesCoverOrder ==
    IsReport /\ Returned =>
        \A i \in DOMAIN last.report :
            LET o == last.report[i]
                ids == Ids(o.restaurants)
            IN o.restaurant_id = None =>
                 /\ \A r \in Restaurants :
                        (r \in Range(ids)) = (RequiredOf(o.order_id) \subseteq AvailableAt(r))
                 /\ \A j, k \in DOMAIN ids : j # k => ids[j] # ids[k]

\* C7 witness: the order asks for two products; one restaurant offers both
\* and is listed, another offers only one of them and is not.
C7_Witness ==
    /\ IsReport /\ Returned
    /\ \E i \in DOMAIN last.report :
         LET o == last.report[i]
         IN /\ o.restaurant_id = None
            /\ Cardinality(RequiredOf(o.order_id)) = 2
            /\ \E r1, r2 \in Restaurants :
                 /\ r1 \in Range(Ids(o.restaurants))
                 /\ r2 \notin Range(Ids(o.restaurants))
                 /\ Cardinality(AvailableAt(r2)) = 1

FirstRow(r) ==
    CHOOSE i \in DOMAIN last.rows.menu_rows :
        /\ last.rows.menu_rows[i].restaurant_id = r
        /\ \A j \in 1..(i - 1) : last.rows.menu_rows[j].restaurant_id # r

\* C9: the list of an order without a restaurant is in ascending order of
\* distance, 0 included, the entries without a distance after all others,
\* and entries of equal distance or both without one in the order they
\* were found.
C9_SortedByDistance ==
    IsReport /\ Returned =>
        \A n \in DOMAIN last.report :
            LET o == last.report[n]
                rs == o.restaurants
            IN o.restaurant_id = None =>
                 \A i, j \in DOMAIN rs : i < j =>
                     LET di == rs[i].distance_km
                         dj == rs[j].distance_km
                     IN /\ (di = None => dj = None)
                        /\ (di # None /\ dj # None => di[1] <= dj[1])
                        /\ (di = dj => FirstRow(rs[i].id) < FirstRow(rs[j].id))

\* C10: the report holds every order once, the orders without a restaurant
\* before those with one, and within each of the two groups the later
\* created_at first.
C10_ReportOrder ==
    last.op = "active_orders_with_restaurants" /\ Returned =>
        LET rep == last.report
        IN /\ {rep[i].order_id : i \in DOMAIN rep}
                 = {row.order_id : row \in Range(last.rows.order_rows)}
           /\ \A i, j \in DOMAIN rep : i < j =>
                 /\ rep[i].order_id # rep[j].order_id
                 /\ ~(rep[i].restaurant_id # None /\ rep[j].restaurant_id = None)
                 /\ (rep[i].restaurant_id = None) = (rep[j].restaurant_id = None)
                        => rep[i].created_at >= rep[j].created_at

\* C10 witness: an order with a restaurant, created later than one without,
\* stands behind it, and a later order of its own group stands before it.
C10_Witness ==
    /\ last.op = "active_orders_with_restaurants" /\ Returned
    /\ \E i, j \in DOMAIN last.report :
         /\ i < j
         /\ last.report[i].restaurant_id = None
         /\ last.report[j].restaurant_id # None
         /\ last.report[i].created_at < last.report[j].created_at
         /\ last.report[i].order_id > last.report[j].order_id

\* the rows a request went on to insert: none when a geocoder call ended it
NewRows(p) ==
    IF inflight[p].st.exc = "none"
    THEN Range(inflight[p].st.new_geo_addresses)
    ELSE {}

\* C11: when two requests that have ended had each fetched a result for the
\* same cache key and gone on to store it (each read the table and missed
\* before the other wrote), neither ended in an error, and the table holds
\* exactly one row for that key, a row one of the two fetched.
C11_RaceConverges ==
    \A p, q \in Procs :
        p # q /\ inflight[p].pc = "done" /\ inflight[q].pc = "done" =>
            \A x \in NewRows(p), y \in NewRows(q) :
                KeyOfRow(x) = KeyOfRow(y) =>
                    /\ inflight[p].exc = "none"
                    /\ inflight[q].exc = "none"
                    /\ Cardinality({r \in cache : KeyOfRow(r) = KeyOfRow(x)}) = 1
                    /\ \E r \in cache : KeyOfRow(r) = KeyOfRow(x) /\ r \in {x, y}


\* a row that records its address as unresolvable
Unresolvable(r) == r.lat = None /\ r.lon = None

\* C12: a call that resolves an address, not blank, whose row has neither
\* coordinate makes exactly one geocoder call for it, returns without an
\* error, and leaves one row for the address, holding what the call returned.
C12_UnresolvableRetried ==
    [][\A r \in cache : Unresolvable(r) /\ ~Blank(r.address) =>
          \A a \in last'.input : KeyOf(a) = KeyOfRow(r) =>
              /\ Cardinality({i \in DOMAIN last'.calls :
                                  KeyOf(last'.calls[i]) = KeyOfRow(r)}) = 1
              /\ last'.status = "returned"
              /\ Cardinality({x \in cache' : KeyOfRow(x) = KeyOfRow(r)}) = 1
              /\ \A x \in cache' : KeyOfRow(x) = KeyOfRow(r) =>
                     Complete(x) = (last'.result[a] # None)]_vars

\* what a call returns for an address: None or a (lat, lon) of two floats
PairOrNone(v) == v = None \/ (Len(v) = 2 /\ v[1] \in Int /\ v[2] \in Int)

\* C13: in every state every row has both coordinates or neither, every
\* value of the mapping the last call returned is None or a (lat, lon) pair,
\* and no two rows have the same cache key; no step removes a row.
C13_BothOrNeither ==
    /\ [](/\ \A r \in cache : (r.lat = None) = (r.lon = None)
          /\ \A a \in DOMAIN last.result : PairOrNone(last.result[a])
          /\ \A r1, r2 \in cache : KeyOfRow(r1) = KeyOfRow(r2) => r1 = r2)
    /\ [][cache \subseteq cache']_vars

\* C13 witness: a batch returned a pair for one address and None for
\* another, and the table holds a row with both coordinates and a row with
\* neither.
C13_Witness ==
    /\ IsBatch /\ Returned
    /\ \E a, b \in last.input :
         /\ last.result[a] # None
         /\ last.result[b] = None
         /\ \E r \in cache : r.address = a /\ Complete(r)
         /\ \E r \in cache : r.address = b /\ Unresolvable(r)

=============================================================================
